---- MODULE Spec2Model ----
(***************************************************************************)
(* Model of pbimmutable.MakeImmutable (src/immutable.go): the parser of    *)
(* the variadic argument list and the hook it returns, which fetches the  *)
(* persisted record, compares the protected fields, calls e.Next() and    *)
(* then the optional user callback.                                        *)
(***************************************************************************)
EXTENDS Integers, Sequences, FiniteSets, TLC

(***************************************************************************)
(* Bounds of the model.                                                    *)
(***************************************************************************)
\* longest argument list given to MakeImmutable
MaxArgs == 3
\* number of hook invocations the framework dispatches in one behaviour
MaxInvocations == 2
\* longest argument list of the concurrent specification
MaxConcArgs == 1
MaxDeepLen == 2

\* the evaluations that may be in flight at the same time
Evals == {1, 2}

(***************************************************************************)
(* Records, fields and values.                                             *)
(***************************************************************************)
\* models.SystemFieldUpdated
SystemFieldUpdated == "updated"

\* the field names isSystemField answers true for
SystemFields == {"id", "created", "updated", "collectionId", "collectionName", "expand"}

isSystemField(fieldName) == fieldName \in SystemFields

\* the fields a record carries a value for: two user fields, two system fields
Fields == {"name", "value", "created", "updated"}

\* e.Record.Schema().Fields(): the user-defined fields, in schema order
SchemaFields == <<"name", "value">>

\* A field value (interface{}): a string, a slice of values, or a map from
\* string keys to values.  A map is written with its keys in the order they
\* were inserted, items[i] being the value of keys[i].
String(s) == [kind |-> "string", s |-> s, keys |-> <<>>, items |-> <<>>]
Slice(items) == [kind |-> "slice", s |-> "", keys |-> <<>>, items |-> items]
Map(keys, items) == [kind |-> "map", s |-> "", keys |-> keys, items |-> items]
\* what Record.Get returns for a field the record has no value for
NilValue == [kind |-> "nil", s |-> "", keys |-> <<>>, items |-> <<>>]

Values == {String("x"), String("y")}

Records == [Fields -> Values]

\* the record as it was created (initialRecord of the tests)
InitialRecord == [f \in Fields |-> String("x")]

\* the identifier of the persisted record, and one no record has
StoredId == "r1"
UnknownId == "r2"

\* DeepEqual answering true for any two values, as when the record is
\* compared with itself
AlwaysEqual(originalValue, pendingValue) == TRUE

\* the values compared as they are written, the order of a map's keys included
SameWriting(originalValue, pendingValue) == originalValue = pendingValue

\* reflect.DeepEqual: values of the same kind; slices of the same length
\* with deeply equal elements at each index; maps of the same length in
\* which each key of one is a key of the other with a deeply equal value
RECURSIVE DeepEqual(_, _)
DeepEqual(originalValue, pendingValue) ==
    IF originalValue.kind # pendingValue.kind
    THEN FALSE
    ELSE CASE originalValue.kind = "slice" ->
                /\ Len(originalValue.items) = Len(pendingValue.items)
                /\ \A i \in 1..Len(originalValue.items) :
                      DeepEqual(originalValue.items[i], pendingValue.items[i])
           [] originalValue.kind = "map" ->
                /\ Len(originalValue.keys) = Len(pendingValue.keys)
                /\ \A i \in 1..Len(originalValue.keys) :
                      \E j \in 1..Len(pendingValue.keys) :
                         /\ pendingValue.keys[j] = originalValue.keys[i]
                         /\ DeepEqual(originalValue.items[i], pendingValue.items[j])
           [] OTHER -> originalValue.s = pendingValue.s

(***************************************************************************)
(* Arguments of MakeImmutable.                                             *)
(***************************************************************************)
NilFunc == "nil"

StringArgs == {[type |-> "string", val |-> f] : f \in Fields}
\* values of type func(e *core.RecordEvent) error: a callback, and the nil func
FuncArgs == {[type |-> "func", val |-> "cb"], [type |-> "func", val |-> NilFunc]}
\* values of any other type
OtherArgs == {[type |-> "int", val |-> "123"], [type |-> "bool", val |-> "true"]}

ArgValues == StringArgs \cup FuncArgs \cup OtherArgs

ArgLists == UNION {[1..n -> ArgValues] : n \in 0..MaxArgs}

(***************************************************************************)
(* Errors.                                                                 *)
(***************************************************************************)
\* an error value created by errors.New / fmt.Errorf or returned by a collaborator
Err(msg, argType, pos) == [msg |-> msg, argType |-> argType, pos |-> pos]
NilErr == Err("", "", -1)

OnlyOneCallback == Err("only one callback function can be provided", "", -1)
InvalidArgument(argType, pos) == Err("invalid argument type", argType, pos)

\* what the hook returns: nil, an *apis.ApiError (status 400) or a wrapped error
Result(type, status, msg, field, reason, recordId, cause) ==
    [type |-> type, status |-> status, msg |-> msg, field |-> field,
     reason |-> reason, recordId |-> recordId, cause |-> cause]

NoError == Result("nil", 0, "", "", "", "", NilErr)
NoResult == Result("pending", 0, "", "", "", "", NilErr)
\* a nil pointer dereference in e.Record.Collection().Id
Panic == Result("panic", 0, "nil pointer dereference", "", "", "", NilErr)

NewBadRequestError(msg, field, reason, recordId, cause) ==
    Result("ApiError", 400, msg, field, reason, recordId, cause)

SetupError(err) == NewBadRequestError("MakeImmutable setup error", "", "", "", err)
RecordMissing == NewBadRequestError("Record data is missing in the event.", "", "", "", NilErr)
AppMissing == NewBadRequestError("App context is missing in the event.", "", "", "", NilErr)
FetchFailed(err) == NewBadRequestError("Failed to fetch original record", "", "", "", err)
ImmutableViolation(fieldName, recordId) ==
    NewBadRequestError("Attempt to modify immutable field", fieldName, "immutable", recordId, NilErr)
CommitFailed(err) ==
    Result("wrapError", 0, "failed to commit record changes via e.Next() after immutability checks",
           "", "", "", err)
\* CallbackFailed with the message of the commit's error
CallbackFailedAsCommit(err) ==
    Result("wrapError", 0, "failed to commit record changes via e.Next() after immutability checks",
           "", "", "", err)
CallbackFailed(err) ==
    Result("wrapError", 0, "user callback failed AFTER record commit", "", "", "", err)

\* the errors the collaborators return
FetchErrors == {Err("sql: no rows in result set", "", -1),
                Err("database is locked", "", -1)}
NextErrors == {Err("db save failed", "", -1),
               Err("validation failed", "", -1)}
CallbackErrors == {Err("callback_forced_error", "", -1),
                   Err("custom validation failed", "", -1)}

\* an entry of an evaluation's log: what was called and the error it returned
Call(fn, ret) == [fn |-> fn, ret |-> ret]
\* what the comparison loop ends with when it finds a changed field
Changed == Err("changed", "", -1)

(***************************************************************************)
(* The events the framework dispatches.                                    *)
(***************************************************************************)
Event(hasRecord, hasApp, hasCollection, id, data) ==
    [hasRecord |-> hasRecord, hasApp |-> hasApp, hasCollection |-> hasCollection,
     Id |-> id, data |-> data]

\* &core.RecordEvent{}
DummyEvent == Event(FALSE, FALSE, FALSE, "", InitialRecord)

UpdateEvents == {Event(TRUE, TRUE, TRUE, StoredId, d) : d \in Records}

BrokenEvents ==
    { DummyEvent,
      Event(FALSE, TRUE, FALSE, "", InitialRecord),
      Event(TRUE, FALSE, TRUE, StoredId, InitialRecord),
      Event(TRUE, TRUE, FALSE, StoredId, InitialRecord),
      Event(TRUE, TRUE, TRUE, UnknownId, InitialRecord) }

Events == UpdateEvents \cup BrokenEvents

VARIABLES
    args,                 \* the arguments MakeImmutable is called with
    hook,                 \* TRUE once MakeImmutable has returned the hook
    immutableFieldNames,  \* captured by the hook
    userCallback,         \* captured by the hook
    parseError,           \* captured by the hook
    stored,               \* the persisted record
    invocations,          \* hook invocations dispatched so far
    pc,                   \* where each evaluation is
    e,                    \* each evaluation's event
    originalRecord,       \* each evaluation's fetched record
    fieldsToCheck,        \* each evaluation's effective field list
    calls,                \* what each evaluation has done, in order
    result                \* what each evaluation returned

vars == <<args, hook, immutableFieldNames, userCallback, parseError, stored,
          invocations, pc, e, originalRecord, fieldsToCheck, calls, result>>

policy == <<immutableFieldNames, userCallback, parseError>>

(***************************************************************************)
(* MakeImmutable: the argument parser (lines 28-49).                       *)
(***************************************************************************)
EmptyPolicy == [immutableFieldNames |-> <<>>, userCallback |-> NilFunc, parseError |-> NilErr]

\* one iteration of the switch on arg.(type); pos is the zero-based index
ParseArg(arg, pos, acc) ==
    CASE arg.type = "string" ->
           [acc EXCEPT !.immutableFieldNames = Append(@, arg.val)]
      [] arg.type = "func" ->
           IF acc.userCallback # NilFunc
           THEN [acc EXCEPT !.parseError = OnlyOneCallback]
           ELSE [acc EXCEPT !.userCallback = arg.val]
      [] OTHER ->
           [acc EXCEPT !.parseError = InvalidArgument(arg.type, pos)]

\* ParseFrom with the loop not left on an error: the last error is kept
RECURSIVE ParseToEnd(_, _, _)
ParseToEnd(as, i, acc) ==
    IF i > Len(as)
    THEN acc
    ELSE ParseToEnd(as, i + 1, ParseArg(as[i], i - 1, acc))

RECURSIVE ParseFrom(_, _, _)
ParseFrom(as, i, acc) ==
    IF i > Len(as) \/ acc.parseError # NilErr
    THEN acc
    ELSE ParseFrom(as, i + 1, ParseArg(as[i], i - 1, acc))

ParseArgs(as) == ParseFrom(as, 1, EmptyPolicy)

\* MakeImmutable(args...): parses the arguments and returns the hook (lines 27-52)
MakeImmutable ==
    /\ ~hook
    /\ hook' = TRUE
    /\ immutableFieldNames' = ParseArgs(args).immutableFieldNames
    /\ userCallback' = ParseArgs(args).userCallback
    /\ parseError' = ParseArgs(args).parseError
    /\ UNCHANGED <<args, stored, invocations, pc, e, originalRecord, fieldsToCheck,
                   calls, result>>

(***************************************************************************)
(* The hook (lines 52-123).                                                *)
(***************************************************************************)
\* record.Get(fieldName): nil for a field the record has no value for
Get(record, fieldName) ==
    IF fieldName \in DOMAIN record THEN record[fieldName] ELSE NilValue

\* EffectiveFields with the protected names ignored: the schema's fields always
SchemaFieldsAlways(names, schemaFields) ==
    SelectSeq(schemaFields, LAMBDA f : ~isSystemField(f))

\* EffectiveFields without the "all user fields" default of an empty list
NamesOnly(names, schemaFields) == names

\* lines 69-79: the fields to compare
EffectiveFields(names, schemaFields) ==
    IF Len(names) = 0
    THEN SelectSeq(schemaFields, LAMBDA f : ~isSystemField(f))
    ELSE names

NoField == ""

\* lines 85-88: the mismatch the loop reports (a mismatch of "updated" is skipped)
IsViolationNoExemption(fieldName, original, pending) ==
    ~DeepEqual(Get(original, fieldName), Get(pending, fieldName))

IsViolation(fieldName, original, pending) ==
    /\ ~DeepEqual(Get(original, fieldName), Get(pending, fieldName))
    /\ ~(isSystemField(fieldName) /\ fieldName = SystemFieldUpdated)

\* lines 81-99: the first field of the list the loop returns an error for
RECURSIVE CheckFrom(_, _, _, _)
CheckFrom(fields, i, original, pending) ==
    IF i > Len(fields)
    THEN NoField
    ELSE IF IsViolation(fields[i], original, pending)
         THEN fields[i]
         ELSE CheckFrom(fields, i + 1, original, pending)

\* FirstViolation with the loop collecting to the end: the last changed field
RECURSIVE CheckBack(_, _, _, _)
CheckBack(fields, i, original, pending) ==
    IF i < 1
    THEN NoField
    ELSE IF IsViolation(fields[i], original, pending)
         THEN fields[i]
         ELSE CheckBack(fields, i - 1, original, pending)

LastViolation(fields, original, pending) ==
    CheckBack(fields, Len(fields), original, pending)

FirstViolation(fields, original, pending) == CheckFrom(fields, 1, original, pending)

\* the framework calls the hook with event ev; lines 53-62
\* Hook with the nil checks of the event ahead of the parseError check
HookNilChecksFirst(p, ev) ==
    /\ hook
    /\ pc[p] = "idle"
    /\ invocations < MaxInvocations
    /\ invocations' = invocations + 1
    /\ e' = [e EXCEPT ![p] = ev]
    /\ calls' = [calls EXCEPT ![p] = <<>>]
    /\ IF ~ev.hasRecord
       THEN /\ result' = [result EXCEPT ![p] = RecordMissing]
            /\ pc' = [pc EXCEPT ![p] = "done"]
       ELSE IF ~ev.hasApp
       THEN /\ result' = [result EXCEPT ![p] = AppMissing]
            /\ pc' = [pc EXCEPT ![p] = "done"]
       ELSE IF parseError # NilErr
       THEN /\ result' = [result EXCEPT ![p] = SetupError(parseError)]
            /\ pc' = [pc EXCEPT ![p] = "done"]
       ELSE /\ result' = [result EXCEPT ![p] = NoResult]
            /\ pc' = [pc EXCEPT ![p] = "fetch"]
    /\ UNCHANGED <<args, hook, policy, stored, originalRecord, fieldsToCheck>>

Hook(p, ev) ==
    /\ hook
    /\ pc[p] = "idle"
    /\ invocations < MaxInvocations
    /\ invocations' = invocations + 1
    /\ e' = [e EXCEPT ![p] = ev]
    /\ calls' = [calls EXCEPT ![p] = <<>>]
    /\ IF parseError # NilErr
       THEN /\ result' = [result EXCEPT ![p] = SetupError(parseError)]
            /\ pc' = [pc EXCEPT ![p] = "done"]
       ELSE IF ~ev.hasRecord
       THEN /\ result' = [result EXCEPT ![p] = RecordMissing]
            /\ pc' = [pc EXCEPT ![p] = "done"]
       ELSE IF ~ev.hasApp
       THEN /\ result' = [result EXCEPT ![p] = AppMissing]
            /\ pc' = [pc EXCEPT ![p] = "done"]
       ELSE /\ result' = [result EXCEPT ![p] = NoResult]
            /\ pc' = [pc EXCEPT ![p] = "fetch"]
    /\ UNCHANGED <<args, hook, policy, stored, originalRecord, fieldsToCheck>>

\* Fetch with a failed FindRecordById tried a second time
FetchRetried(p) ==
    /\ pc[p] = "fetch"
    /\ IF ~e[p].hasCollection
       THEN /\ result' = [result EXCEPT ![p] = Panic]
            /\ pc' = [pc EXCEPT ![p] = "done"]
            /\ UNCHANGED <<originalRecord, calls>>
       ELSE \/ /\ e[p].Id = StoredId
               /\ calls' = [calls EXCEPT ![p] = Append(@, Call("FindRecordById", NilErr))]
               /\ originalRecord' = [originalRecord EXCEPT ![p] = stored]
               /\ pc' = [pc EXCEPT ![p] = "compare"]
               /\ UNCHANGED result
            \/ /\ \E err \in FetchErrors :
                     /\ calls' = [calls EXCEPT ![p] =
                                    Append(Append(@, Call("FindRecordById", err)),
                                           Call("FindRecordById", err))]
                     /\ result' = [result EXCEPT ![p] = FetchFailed(err)]
               /\ pc' = [pc EXCEPT ![p] = "done"]
               /\ UNCHANGED originalRecord
    /\ UNCHANGED <<args, hook, policy, stored, invocations, e, fieldsToCheck>>

\* lines 64-67: e.App.Dao().FindRecordById(e.Record.Collection().Id, e.Record.Id)
Fetch(p) ==
    /\ pc[p] = "fetch"
    /\ IF ~e[p].hasCollection
       THEN /\ result' = [result EXCEPT ![p] = Panic]
            /\ pc' = [pc EXCEPT ![p] = "done"]
            /\ UNCHANGED <<originalRecord, calls>>
       ELSE \/ /\ e[p].Id = StoredId
               /\ calls' = [calls EXCEPT ![p] = Append(@, Call("FindRecordById", NilErr))]
               /\ originalRecord' = [originalRecord EXCEPT ![p] = stored]
               /\ pc' = [pc EXCEPT ![p] = "compare"]
               /\ UNCHANGED result
            \/ /\ \E err \in FetchErrors :
                     /\ calls' = [calls EXCEPT ![p] = Append(@, Call("FindRecordById", err))]
                     /\ result' = [result EXCEPT ![p] = FetchFailed(err)]
               /\ pc' = [pc EXCEPT ![p] = "done"]
               /\ UNCHANGED originalRecord
    /\ UNCHANGED <<args, hook, policy, stored, invocations, e, fieldsToCheck>>

\* Compare with e.Next() called before the comparison loop
CompareAfterNext(p) ==
    /\ pc[p] = "compare"
    /\ LET fields == EffectiveFields(immutableFieldNames, SchemaFields)
           changed == FirstViolation(fields, originalRecord[p], e[p].data)
       IN /\ fieldsToCheck' = [fieldsToCheck EXCEPT ![p] = fields]
          /\ stored' = e[p].data
          /\ IF changed # NoField
             THEN /\ calls' = [calls EXCEPT ![p] =
                                 Append(Append(@, Call("Next", NilErr)), Call("compare", Changed))]
                  /\ result' = [result EXCEPT ![p] = ImmutableViolation(changed, e[p].Id)]
                  /\ pc' = [pc EXCEPT ![p] = "done"]
             ELSE /\ calls' = [calls EXCEPT ![p] =
                                 Append(Append(@, Call("Next", NilErr)), Call("compare", NilErr))]
                  /\ pc' = [pc EXCEPT ![p] = "callback"]
                  /\ UNCHANGED result
    /\ UNCHANGED <<args, hook, policy, invocations, e, originalRecord>>

\* Compare with the list built from the schema kept in immutableFieldNames
CompareCachingFields(p) ==
    /\ pc[p] = "compare"
    /\ LET fields == EffectiveFields(immutableFieldNames, SchemaFields)
           changed == FirstViolation(fields, originalRecord[p], e[p].data)
       IN /\ fieldsToCheck' = [fieldsToCheck EXCEPT ![p] = fields]
          /\ immutableFieldNames' = fields
          /\ IF changed # NoField
             THEN /\ calls' = [calls EXCEPT ![p] = Append(@, Call("compare", Changed))]
                  /\ result' = [result EXCEPT ![p] = ImmutableViolation(changed, e[p].Id)]
                  /\ pc' = [pc EXCEPT ![p] = "done"]
             ELSE /\ calls' = [calls EXCEPT ![p] = Append(@, Call("compare", NilErr))]
                  /\ pc' = [pc EXCEPT ![p] = "commit"]
                  /\ UNCHANGED result
    /\ UNCHANGED <<args, hook, userCallback, parseError, stored, invocations, e,
                   originalRecord>>

\* lines 69-99: build fieldsToCheck and compare field by field
Compare(p) ==
    /\ pc[p] = "compare"
    /\ LET fields == EffectiveFields(immutableFieldNames, SchemaFields)
           changed == FirstViolation(fields, originalRecord[p], e[p].data)
       IN /\ fieldsToCheck' = [fieldsToCheck EXCEPT ![p] = fields]
          /\ IF changed # NoField
             THEN /\ calls' = [calls EXCEPT ![p] = Append(@, Call("compare", Changed))]
                  /\ result' = [result EXCEPT ![p] = ImmutableViolation(changed, e[p].Id)]
                  /\ pc' = [pc EXCEPT ![p] = "done"]
             ELSE /\ calls' = [calls EXCEPT ![p] = Append(@, Call("compare", NilErr))]
                  /\ pc' = [pc EXCEPT ![p] = "commit"]
                  /\ UNCHANGED result
    /\ UNCHANGED <<args, hook, policy, stored, invocations, e, originalRecord>>

\* Commit with the error of e.Next() not returned: the hook goes on
CommitErrorIgnored(p) ==
    /\ pc[p] = "commit"
    /\ \/ /\ calls' = [calls EXCEPT ![p] = Append(@, Call("Next", NilErr))]
          /\ stored' = e[p].data
       \/ /\ \E err \in NextErrors :
                calls' = [calls EXCEPT ![p] = Append(@, Call("Next", err))]
          /\ UNCHANGED stored
    /\ pc' = [pc EXCEPT ![p] = "callback"]
    /\ UNCHANGED <<args, hook, policy, invocations, e, originalRecord, fieldsToCheck,
                   result>>

\* Commit with the user callback run ahead of e.Next()
CommitAfterCallback(p) ==
    /\ pc[p] = "commit"
    /\ \/ /\ calls' = [calls EXCEPT ![p] =
                          Append(Append(@, Call("userCallback", NilErr)), Call("Next", NilErr))]
          /\ stored' = e[p].data
          /\ result' = [result EXCEPT ![p] = NoError]
       \/ /\ \E err \in NextErrors :
                /\ calls' = [calls EXCEPT ![p] =
                               Append(Append(@, Call("userCallback", NilErr)), Call("Next", err))]
                /\ result' = [result EXCEPT ![p] = CommitFailed(err)]
          /\ UNCHANGED stored
    /\ pc' = [pc EXCEPT ![p] = "done"]
    /\ UNCHANGED <<args, hook, policy, invocations, e, originalRecord, fieldsToCheck>>

\* Commit with the pending record saved even when e.Next() fails
CommitSavesOnError(p) ==
    /\ pc[p] = "commit"
    /\ stored' = e[p].data
    /\ \/ /\ calls' = [calls EXCEPT ![p] = Append(@, Call("Next", NilErr))]
          /\ pc' = [pc EXCEPT ![p] = "callback"]
          /\ UNCHANGED result
       \/ /\ \E err \in NextErrors :
                /\ calls' = [calls EXCEPT ![p] = Append(@, Call("Next", err))]
                /\ result' = [result EXCEPT ![p] = CommitFailed(err)]
          /\ pc' = [pc EXCEPT ![p] = "done"]
    /\ UNCHANGED <<args, hook, policy, invocations, e, originalRecord, fieldsToCheck>>

\* lines 104-108: e.Next(), which saves the pending record or fails
Commit(p) ==
    /\ pc[p] = "commit"
    /\ \/ /\ calls' = [calls EXCEPT ![p] = Append(@, Call("Next", NilErr))]
          /\ stored' = e[p].data
          /\ pc' = [pc EXCEPT ![p] = "callback"]
          /\ UNCHANGED result
       \/ /\ \E err \in NextErrors :
                /\ calls' = [calls EXCEPT ![p] = Append(@, Call("Next", err))]
                /\ result' = [result EXCEPT ![p] = CommitFailed(err)]
          /\ pc' = [pc EXCEPT ![p] = "done"]
          /\ UNCHANGED stored
    /\ UNCHANGED <<args, hook, policy, invocations, e, originalRecord, fieldsToCheck>>

\* Callback with the commit undone when the callback fails
CallbackWithUndo(p) ==
    /\ pc[p] = "callback"
    /\ pc' = [pc EXCEPT ![p] = "done"]
    /\ IF userCallback # NilFunc
       THEN \/ /\ calls' = [calls EXCEPT ![p] = Append(@, Call("userCallback", NilErr))]
               /\ result' = [result EXCEPT ![p] = NoError]
               /\ UNCHANGED stored
            \/ /\ \E err \in CallbackErrors :
                     /\ calls' = [calls EXCEPT ![p] = Append(@, Call("userCallback", err))]
                     /\ result' = [result EXCEPT ![p] = CallbackFailed(err)]
               /\ stored' = originalRecord[p]
       ELSE /\ result' = [result EXCEPT ![p] = NoError]
            /\ UNCHANGED <<calls, stored>>
    /\ UNCHANGED <<args, hook, policy, invocations, e, originalRecord, fieldsToCheck>>

\* lines 113-122: the user callback, if any, then return
Callback(p) ==
    /\ pc[p] = "callback"
    /\ pc' = [pc EXCEPT ![p] = "done"]
    /\ IF userCallback # NilFunc
       THEN \/ /\ calls' = [calls EXCEPT ![p] = Append(@, Call("userCallback", NilErr))]
               /\ result' = [result EXCEPT ![p] = NoError]
            \/ \E err \in CallbackErrors :
                  /\ calls' = [calls EXCEPT ![p] = Append(@, Call("userCallback", err))]
                  /\ result' = [result EXCEPT ![p] = CallbackFailed(err)]
       ELSE /\ result' = [result EXCEPT ![p] = NoError]
            /\ UNCHANGED calls
    /\ UNCHANGED <<args, hook, policy, stored, invocations, e, originalRecord,
                   fieldsToCheck>>

\* the framework takes the hook's result; the evaluation's locals are gone
Return(p) ==
    /\ pc[p] = "done"
    /\ pc' = [pc EXCEPT ![p] = "idle"]
    /\ e' = [e EXCEPT ![p] = DummyEvent]
    /\ originalRecord' = [originalRecord EXCEPT ![p] = InitialRecord]
    /\ fieldsToCheck' = [fieldsToCheck EXCEPT ![p] = <<>>]
    /\ calls' = [calls EXCEPT ![p] = <<>>]
    /\ result' = [result EXCEPT ![p] = NoResult]
    /\ UNCHANGED <<args, hook, policy, stored, invocations>>

(***************************************************************************)
(* Specifications.                                                         *)
(***************************************************************************)
InitWith(argLists) ==
    /\ args \in argLists
    /\ hook = FALSE
    /\ immutableFieldNames = <<>>
    /\ userCallback = NilFunc
    /\ parseError = NilErr
    /\ stored = InitialRecord
    /\ invocations = 0
    /\ pc = [p \in Evals |-> "idle"]
    /\ e = [p \in Evals |-> DummyEvent]
    /\ originalRecord = [p \in Evals |-> InitialRecord]
    /\ fieldsToCheck = [p \in Evals |-> <<>>]
    /\ calls = [p \in Evals |-> <<>>]
    /\ result = [p \in Evals |-> NoResult]

Init == InitWith(ArgLists)

\* one evaluation at a time
Next ==
    \/ MakeImmutable
    \/ \E ev \in Events : Hook(1, ev)
    \/ Fetch(1)
    \/ Compare(1)
    \/ Commit(1)
    \/ Callback(1)
    \/ Return(1)

Spec == Init /\ [][Next]_vars

(***************************************************************************)
(* Slices and maps as field values: the protected field "name" holds       *)
(* strings, slices and maps of strings, and slices and maps of those.      *)
(***************************************************************************)
Strings == {String("1"), String("2")}
MapKeys == {"a", "b"}

\* the slices of at most MaxDeepLen elements taken from elems
SlicesOf(elems) == {Slice(q) : q \in UNION {[1..n -> elems] : n \in 0..MaxDeepLen}}

\* the orders in which at most MaxDeepLen different keys can be inserted
KeyOrders ==
    {ks \in UNION {[1..n -> MapKeys] : n \in 0..MaxDeepLen} :
        \A i, j \in 1..Len(ks) : ks[i] = ks[j] => i = j}

\* the maps with values taken from elems, in every order of insertion
MapsOf(elems) == UNION {{Map(ks, q) : q \in [1..Len(ks) -> elems]} : ks \in KeyOrders}

\* a slice and a map of two entries, each written in both orders
Inner ==
    {Slice(<<String("1"), String("2")>>), Slice(<<String("2"), String("1")>>),
     Map(<<"a", "b">>, <<String("1"), String("2")>>),
     Map(<<"b", "a">>, <<String("2"), String("1")>>)}

DeepValues ==
    Strings \cup SlicesOf(Strings) \cup MapsOf(Strings) \cup SlicesOf(Inner) \cup MapsOf(Inner)

DeepRecords == {[InitialRecord EXCEPT !["name"] = v] : v \in DeepValues}

DeepEvents == {Event(TRUE, TRUE, TRUE, StoredId, d) : d \in DeepRecords}

\* a hook protecting "name", over a stored record with any of the values
InitDeep ==
    /\ args = <<[type |-> "string", val |-> "name"]>>
    /\ hook = FALSE
    /\ immutableFieldNames = <<>>
    /\ userCallback = NilFunc
    /\ parseError = NilErr
    /\ stored \in DeepRecords
    /\ invocations = 0
    /\ pc = [p \in Evals |-> "idle"]
    /\ e = [p \in Evals |-> DummyEvent]
    /\ originalRecord = [p \in Evals |-> InitialRecord]
    /\ fieldsToCheck = [p \in Evals |-> <<>>]
    /\ calls = [p \in Evals |-> <<>>]
    /\ result = [p \in Evals |-> NoResult]

NextDeep ==
    \/ MakeImmutable
    \/ \E ev \in DeepEvents : Hook(1, ev)
    \/ Fetch(1)
    \/ Compare(1)
    \/ Commit(1)
    \/ Callback(1)
    \/ Return(1)

SpecDeep == InitDeep /\ [][NextDeep]_vars

\* the argument lists of the concurrent specification: short lists, a
\* function argument only in the last place
ConcArgLists ==
    {as \in ArgLists : /\ Len(as) <= MaxConcArgs
                       /\ \A i \in 1..Len(as) : as[i].type # "func" \/ i = Len(as)}

InitConc == InitWith(ConcArgLists)

\* the events of the concurrent specification: updates that leave "created"
\* alone, and an update of a record that does not exist
ConcEvents ==
    {ev \in UpdateEvents : ev.data["created"] = InitialRecord["created"]}
      \cup {Event(TRUE, TRUE, TRUE, UnknownId, InitialRecord)}

\* evaluations of the same hook on the same record, interleaved step by step
NextConc ==
    \/ MakeImmutable
    \/ \E p \in Evals :
          \/ \E ev \in ConcEvents : Hook(p, ev)
          \/ Fetch(p)
          \/ Compare(p)
          \/ Commit(p)
          \/ Callback(p)
          \/ Return(p)

SpecConc == InitConc /\ [][NextConc]_vars

(***************************************************************************)
(* Vocabulary of the properties.                                           *)
(***************************************************************************)
Range(seq) == {seq[i] : i \in 1..Len(seq)}

Min(S) == CHOOSE x \in S : \A y \in S : x <= y

\* evaluation p has called fn
Called(p, fn) == \E i \in 1..Len(calls[p]) : calls[p][i].fn = fn

\* evaluation p has called fn and it returned nil
Succeeded(p, fn) == \E i \in 1..Len(calls[p]) : calls[p][i] = Call(fn, NilErr)

\* how often evaluation p has called fn
Count(p, fn) == Cardinality({i \in 1..Len(calls[p]) : calls[p][i].fn = fn})

\* field f differs between p's snapshot and p's proposed state
Differs(p, f) == originalRecord[p][f] # e[p].data[f]

IsImmutabilityViolation(r) ==
    r.type = "ApiError" /\ r.msg = "Attempt to modify immutable field"

\* the error value the hook returns for a change of fieldName
ViolationOf(fieldName, recordId) ==
    [type |-> "ApiError", status |-> 400, msg |-> "Attempt to modify immutable field",
     field |-> fieldName, reason |-> "immutable", recordId |-> recordId, cause |-> NilErr]

\* positions of the listed fields, other than "updated", that differ
ListedChanges(p) ==
    {i \in 1..Len(immutableFieldNames) :
        /\ immutableFieldNames[i] # "updated"
        /\ Differs(p, immutableFieldNames[i])}

\* positions of the schema's non-system fields that differ
SchemaChanges(p) ==
    {i \in 1..Len(SchemaFields) :
        /\ SchemaFields[i] \notin SystemFields
        /\ Differs(p, SchemaFields[i])}

(***************************************************************************)
(* C1: with a non-empty protected list, once the snapshot is fetched and   *)
(* compared, if a listed field other than "updated" differs the hook       *)
(* returns the violation that names the first such field in list order,    *)
(* with reason "immutable" and the record's id; fields outside the list    *)
(* play no part.                                                           *)
(***************************************************************************)
C1_FirstListedChangeReported ==
    \A p \in Evals :
        (Called(p, "compare") /\ Len(immutableFieldNames) > 0 /\ ListedChanges(p) # {})
        => /\ pc[p] = "done"
           /\ result[p] =
                ViolationOf(immutableFieldNames[Min(ListedChanges(p))], e[p].Id)

\* a later listed field is reported although two listed fields and an
\* unlisted one differ
C1_Witness ==
    \E p \in Evals :
        /\ pc[p] = "done"
        /\ Len(immutableFieldNames) >= 2
        /\ Cardinality(ListedChanges(p)) >= 2
        /\ Min(ListedChanges(p)) >= 2
        /\ IsImmutabilityViolation(result[p])
        /\ \E f \in Fields \ Range(immutableFieldNames) : Differs(p, f)

(***************************************************************************)
(* C2: with a non-empty protected list and no setup error, once the        *)
(* snapshot is fetched and compared, if no listed field differs there is   *)
(* no violation and the evaluation goes on to e.Next(), whatever the       *)
(* other fields hold.                                                      *)
(***************************************************************************)
C2_NoListedChangeCommits ==
    \A p \in Evals :
        ( /\ Called(p, "compare")
          /\ Len(immutableFieldNames) > 0
          /\ \A i \in 1..Len(immutableFieldNames) : ~Differs(p, immutableFieldNames[i]) )
        => /\ ~IsImmutabilityViolation(result[p])
           /\ pc[p] = "commit" \/ Called(p, "Next")

\* e.Next() was called on an update that changes a field outside the list
C2_Witness ==
    \E p \in Evals :
        /\ Called(p, "Next")
        /\ Len(immutableFieldNames) > 0
        /\ \A i \in 1..Len(immutableFieldNames) : ~Differs(p, immutableFieldNames[i])
        /\ \E f \in Fields \ Range(immutableFieldNames) : Differs(p, f)

(***************************************************************************)
(* C3: with an empty protected list, once the snapshot is fetched and      *)
(* compared, if a non-system field of the schema differs the hook returns  *)
(* the violation naming the first such field in schema order; if none      *)
(* differs there is no violation and the evaluation goes on to e.Next().   *)
(***************************************************************************)
C3_AllUserFieldsProtected ==
    \A p \in Evals :
        (Called(p, "compare") /\ Len(immutableFieldNames) = 0)
        => IF SchemaChanges(p) # {}
           THEN /\ pc[p] = "done"
                /\ result[p] = ViolationOf(SchemaFields[Min(SchemaChanges(p))], e[p].Id)
           ELSE /\ ~IsImmutabilityViolation(result[p])
                /\ pc[p] = "commit" \/ Called(p, "Next")

\* both user fields differ and the first in schema order is the one reported
C3_Witness ==
    \E p \in Evals :
        /\ pc[p] = "done"
        /\ Len(immutableFieldNames) = 0
        /\ Cardinality(SchemaChanges(p)) >= 2
        /\ result[p] = ViolationOf(SchemaFields[1], e[p].Id)

(***************************************************************************)
(* C4: under every interleaving of the evaluations' steps, a field the     *)
(* policy protects (a listed field other than "updated", or with an empty  *)
(* list a non-system field of the schema) keeps in the persisted record    *)
(* the value it was created with.                                          *)
(***************************************************************************)
ProtectedFields ==
    IF Len(immutableFieldNames) = 0
    THEN {f \in Range(SchemaFields) : f \notin SystemFields}
    ELSE Range(immutableFieldNames) \ {"updated"}

C4_ProtectedFieldKeepsCreatedValue ==
    hook => \A a \in ProtectedFields : stored[a] = InitialRecord[a]

\* two evaluations fetched the record as created, then both committed
\* different updates: the second commit rests on a stale snapshot
C4_Witness ==
    \E p, q \in Evals :
        /\ p # q
        /\ ProtectedFields # {}
        /\ Succeeded(p, "Next") /\ Succeeded(q, "Next")
        /\ originalRecord[p] = InitialRecord /\ originalRecord[q] = InitialRecord
        /\ e[p].data # InitialRecord /\ e[q].data # InitialRecord
        /\ e[p].data # e[q].data
        /\ stored # InitialRecord

(***************************************************************************)
(* C5: an evaluation that ends with the immutability violation has called  *)
(* neither e.Next() nor the user callback, and the persisted record is     *)
(* the one it fetched.                                                     *)
(***************************************************************************)
C5_ViolationCommitsNothing ==
    \A p \in Evals :
        (pc[p] = "done" /\ IsImmutabilityViolation(result[p]))
        => /\ ~Called(p, "Next")
           /\ ~Called(p, "userCallback")
           /\ stored = originalRecord[p]

\* a violation returned by a hook that has a callback, after an earlier
\* update of the record went through
C5_Witness ==
    \E p \in Evals :
        /\ pc[p] = "done"
        /\ IsImmutabilityViolation(result[p])
        /\ userCallback # NilFunc
        /\ stored # InitialRecord

C8_CommitOnlyAfterCallbackNil ==
    userCallback # NilFunc =>
        \A p \in Evals :
            /\ \A j \in 1..Len(calls[p]) :
                  calls[p][j] = Call("Next", NilErr)
                  => \E i \in 1..(j - 1) : calls[p][i] = Call("userCallback", NilErr)
            /\ (Called(p, "userCallback") /\ ~Succeeded(p, "userCallback"))
                  => stored = originalRecord[p]

(***************************************************************************)
(* Vocabulary of the properties about the argument list.                   *)
(***************************************************************************)
\* positions of the arguments of the callback's function type
FuncPositions == {i \in 1..Len(args) : args[i].type = "func"}

\* positions of the arguments that are neither strings nor such functions
OtherPositions == {i \in 1..Len(args) : args[i].type \notin {"string", "func"}}

\* positions of the function arguments that follow a non-nil function argument
SecondCallbackPositions ==
    {i \in FuncPositions : \E j \in FuncPositions : j < i /\ args[j].val # NilFunc}

\* the error value the hook returns for the parse error err
SetupErrorOf(err) ==
    [type |-> "ApiError", status |-> 400, msg |-> "MakeImmutable setup error",
     field |-> "", reason |-> "", recordId |-> "", cause |-> err]

\* MakeImmutable returns a hook, which answers every event with the setup
\* error for err and calls nothing
DeferredSetupError(err) ==
    /\ ~hook => ENABLED MakeImmutable
    /\ hook => parseError = err
    /\ stored = InitialRecord
    /\ \A p \in Evals :
          /\ pc[p] \in {"idle", "done"}
          /\ calls[p] = <<>>
          /\ pc[p] = "done" => result[p] = SetupErrorOf(err)

(***************************************************************************)
(* C9 as stated: an argument list of strings and two or more arguments of  *)
(* the callback's type is accepted by MakeImmutable, and the hook answers  *)
(* every event, the empty event included, with the "only one callback      *)
(* function can be provided" setup error, without fetch, commit or         *)
(* callback.                                                               *)
(***************************************************************************)
C9_TwoFunctionArgumentsRejected ==
    (Cardinality(FuncPositions) >= 2 /\ OtherPositions = {})
    => DeferredSetupError(
         [msg |-> "only one callback function can be provided", argType |-> "", pos |-> -1])

(***************************************************************************)
(* What the parser does guarantee for C9: the same, for a list of strings  *)
(* and functions in which a function argument follows a non-nil function   *)
(* argument (line 37 tests the retained callback against nil).             *)
(***************************************************************************)
C9_SecondCallbackRejected ==
    (SecondCallbackPositions # {} /\ OtherPositions = {})
    => DeferredSetupError(
         [msg |-> "only one callback function can be provided", argType |-> "", pos |-> -1])

\* the hook of MakeImmutable(cb, "field", cb) has answered the empty event
C9_Witness ==
    \E p \in Evals :
        /\ Len(args) = 3
        /\ args[1] = [type |-> "func", val |-> "cb"]
        /\ args[2].type = "string"
        /\ args[3] = [type |-> "func", val |-> "cb"]
        /\ pc[p] = "done"
        /\ e[p] = DummyEvent
        /\ result[p].cause.msg = "only one callback function can be provided"

(***************************************************************************)
(* C10 as stated: an argument that is neither a string nor a function      *)
(* makes the parse error the one that names the type and the zero-based    *)
(* position of the first such argument, whatever follows it.               *)
(***************************************************************************)
C10_InvalidArgumentAlwaysReported ==
    (hook /\ OtherPositions # {})
    => parseError =
         [msg |-> "invalid argument type",
          argType |-> args[Min(OtherPositions)].type,
          pos |-> Min(OtherPositions) - 1]

(***************************************************************************)
(* C10 as amended: the same, unless a rejected second callback comes       *)
(* before the first such argument; a list of strings with at most one      *)
(* function has no parse error; and the hook returns the parse error, if   *)
(* any, as its setup error.                                                *)
(***************************************************************************)
C10_FirstInvalidArgumentReported ==
    hook =>
        /\ ( /\ OtherPositions # {}
             /\ \A i \in SecondCallbackPositions : i > Min(OtherPositions) )
           => parseError =
                [msg |-> "invalid argument type",
                 argType |-> args[Min(OtherPositions)].type,
                 pos |-> Min(OtherPositions) - 1]
        /\ (OtherPositions = {} /\ Cardinality(FuncPositions) <= 1)
           => parseError = NilErr
        /\ \A p \in Evals :
             (pc[p] = "done" /\ parseError # NilErr)
             => result[p] = SetupErrorOf(parseError)

\* two invalid arguments of different types after a string: the hook has
\* returned the error for the first of them, at position 1
C10_Witness ==
    \E p \in Evals :
        /\ Len(args) = 3
        /\ args[1].type = "string"
        /\ args[2].type = "bool"
        /\ args[3].type = "int"
        /\ pc[p] = "done"
        /\ result[p].cause = [msg |-> "invalid argument type", argType |-> "bool", pos |-> 1]


(***************************************************************************)
(* C11: the "updated" field never triggers a violation.  Whenever the      *)
(* list that was compared contains "updated" and its value differs between *)
(* the snapshot and the proposed state, the difference is passed over and  *)
(* the loop goes on: a differing listed field other than "updated" is      *)
(* still the one reported, and if there is none no violation is returned   *)
(* and e.Next() is what follows.                                           *)
(***************************************************************************)
C11_UpdatedNeverViolates ==
    \A p \in Evals :
        /\ IsImmutabilityViolation(result[p]) => result[p].field # SystemFieldUpdated
        /\ (/\ Called(p, "compare")
            /\ SystemFieldUpdated \in Range(fieldsToCheck[p])
            /\ Differs(p, SystemFieldUpdated))
           => IF ListedChanges(p) = {}
              THEN /\ ~IsImmutabilityViolation(result[p])
                   /\ pc[p] = "commit" \/ Called(p, "Next")
              ELSE /\ pc[p] = "done"
                   /\ result[p] =
                        ViolationOf(immutableFieldNames[Min(ListedChanges(p))], e[p].Id)

\* "updated" is listed first and differs, nothing else listed differs, and
\* the change of "updated" has been committed
C11_Witness ==
    /\ Len(immutableFieldNames) = 2
    /\ immutableFieldNames[1] = SystemFieldUpdated
    /\ Differs(1, SystemFieldUpdated)
    /\ ListedChanges(1) = {}
    /\ Succeeded(1, "Next")
    /\ stored[SystemFieldUpdated] # originalRecord[1][SystemFieldUpdated]

(***************************************************************************)
(* C12: no violation ever names a system field (id, created, updated,      *)
(* collectionId, collectionName, expand), whatever the protected list is.  *)
(***************************************************************************)
C12_SystemFieldNeverViolates ==
    \A p \in Evals :
        IsImmutabilityViolation(result[p]) => ~isSystemField(result[p].field)

\* a listed system field other than "updated" differs and is the one the
\* returned violation names
C12_Witness ==
    /\ pc[1] = "done"
    /\ "created" \in Range(immutableFieldNames)
    /\ Differs(1, "created")
    /\ result[1] = ViolationOf("created", e[1].Id)


\* r is an error value the hook returned
IsReturnedError(r) == r.type \in {"ApiError", "wrapError"}

\* the event lacks the record, the app, or the record's collection
MissingPrecondition(ev) == ~ev.hasRecord \/ ~ev.hasApp \/ ~ev.hasCollection

(***************************************************************************)
(* C13: for a hook made without setup error, an event that lacks the       *)
(* record, the app or the record's collection ends with a returned error   *)
(* that is not an immutability violation, and neither FindRecordById nor   *)
(* e.Next() nor the user callback is called.                               *)
(***************************************************************************)
C13_MissingPreconditionReturnsError ==
    \A p \in Evals :
        (pc[p] # "idle" /\ parseError = NilErr /\ MissingPrecondition(e[p]))
        => /\ calls[p] = <<>>
           /\ pc[p] \in {"fetch", "done"}
           /\ pc[p] = "done" => /\ IsReturnedError(result[p])
                                /\ ~IsImmutabilityViolation(result[p])

\* a record without collection, with the app present: the hook panics
C13_Witness ==
    /\ pc[1] = "done"
    /\ parseError = NilErr
    /\ e[1].hasRecord /\ e[1].hasApp /\ ~e[1].hasCollection
    /\ result[1] = Panic

\* the error value the hook returns when FindRecordById returns err
FetchErrorOf(err) ==
    [type |-> "ApiError", status |-> 400, msg |-> "Failed to fetch original record",
     field |-> "", reason |-> "", recordId |-> "", cause |-> err]

(***************************************************************************)
(* C14: when FindRecordById returns an error, the hook returns the         *)
(* "Failed to fetch original record" error that carries that error, having *)
(* called FindRecordById once and neither e.Next() nor the user callback;  *)
(* nothing is compared and the stored record is not the proposed one       *)
(* unless it already was.                                                  *)
(***************************************************************************)
C14_FetchErrorPreventsUpdate ==
    \A p \in Evals :
        \A i \in 1..Len(calls[p]) :
            (calls[p][i].fn = "FindRecordById" /\ calls[p][i].ret # NilErr)
            => /\ pc[p] = "done"
               /\ result[p] = FetchErrorOf(calls[p][i].ret)
               /\ Count(p, "FindRecordById") = 1
               /\ ~Called(p, "compare")
               /\ ~Called(p, "Next")
               /\ ~Called(p, "userCallback")

\* the storage fails for the stored record under a hook with a callback,
\* and the proposed change of "name" is not stored
C14_Witness ==
    /\ pc[1] = "done"
    /\ userCallback # NilFunc
    /\ e[1].Id = StoredId
    /\ e[1].data["name"] # stored["name"]
    /\ calls[1] = <<Call("FindRecordById", Err("database is locked", "", -1))>>
    /\ result[1].cause = Err("database is locked", "", -1)

(***************************************************************************)
(* C15 (as stated): a hook made with a setup error that is given an event  *)
(* without record returns the error about the missing record.              *)
(***************************************************************************)
C15_NilChecksBeforeSetupError ==
    \A p \in Evals :
        (pc[p] = "done" /\ parseError # NilErr /\ ~e[p].hasRecord)
        => result[p].msg = "Record data is missing in the event."

(***************************************************************************)
(* C15 (amended): the setup error is checked ahead of the event: a hook    *)
(* made with a setup error that is given an event without record or        *)
(* without app returns the setup error, not the error about the missing    *)
(* record or app.                                                          *)
(***************************************************************************)
C15_SetupErrorBeforeNilChecks ==
    \A p \in Evals :
        (pc[p] = "done" /\ parseError # NilErr /\ (~e[p].hasRecord \/ ~e[p].hasApp))
        => /\ result[p] = SetupErrorOf(parseError)
           /\ calls[p] = <<>>

\* an invalid argument, and an event with the app but without record
C15_Witness ==
    /\ pc[1] = "done"
    /\ parseError.msg = "invalid argument type"
    /\ ~e[1].hasRecord /\ e[1].hasApp
    /\ result[1] = SetupErrorOf(parseError)

\* the error value the hook returns when e.Next() returns err
CommitErrorOf(err) ==
    [type |-> "wrapError", status |-> 0,
     msg |-> "failed to commit record changes via e.Next() after immutability checks",
     field |-> "", reason |-> "", recordId |-> "", cause |-> err]

(***************************************************************************)
(* C16: when all checks pass and e.Next() returns an error, the hook       *)
(* returns the "failed to commit" error wrapping that error, which is not  *)
(* an immutability violation; e.Next() has been called once, the user      *)
(* callback not at all, and the stored record is still the snapshot.       *)
(***************************************************************************)
C16_CommitErrorWrapped ==
    \A p \in Evals :
        \A i \in 1..Len(calls[p]) :
            (calls[p][i].fn = "Next" /\ calls[p][i].ret # NilErr)
            => /\ pc[p] = "done"
               /\ Succeeded(p, "compare")
               /\ result[p] = CommitErrorOf(calls[p][i].ret)
               /\ ~IsImmutabilityViolation(result[p])
               /\ Count(p, "Next") = 1
               /\ ~Called(p, "userCallback")
               /\ stored = originalRecord[p]

\* e.Next() fails validation for an update that changes an unlisted field,
\* under a hook with a callback
C16_Witness ==
    /\ pc[1] = "done"
    /\ userCallback # NilFunc
    /\ immutableFieldNames = <<"name">>
    /\ Differs(1, "value")
    /\ result[1] = CommitErrorOf(Err("validation failed", "", -1))
    /\ stored = originalRecord[1]


\* the step an error message of the hook belongs to
StageOfMessage(msg) ==
    CASE msg = "MakeImmutable setup error" -> "setup"
      [] msg = "Record data is missing in the event." -> "precondition"
      [] msg = "App context is missing in the event." -> "precondition"
      [] msg = "Failed to fetch original record" -> "fetch"
      [] msg = "Attempt to modify immutable field" -> "violation"
      [] msg = "failed to commit record changes via e.Next() after immutability checks"
            -> "commit"
      [] msg = "user callback failed AFTER record commit" -> "callback"
      [] OTHER -> "none"

\* the step at which evaluation p stopped, read from what it called
FailedStage(p) ==
    IF calls[p] = <<>>
    THEN IF parseError # NilErr THEN "setup" ELSE "precondition"
    ELSE LET last == calls[p][Len(calls[p])].fn
         IN CASE last = "FindRecordById" -> "fetch"
              [] last = "compare" -> "violation"
              [] last = "Next" -> "commit"
              [] last = "userCallback" -> "callback"

\* r carries the field, the reason and the record id
HasFieldDetail(r) == r.field # "" /\ r.reason # "" /\ r.recordId # ""

\* r is a bad-request (status 400) error, the kind shown to the client
IsBadRequest(r) == r.type = "ApiError" /\ r.status = 400

(***************************************************************************)
(* C17 (as stated): of the errors the hook returns, only the immutability  *)
(* violation is a bad-request error, the kind shown to the client.         *)
(***************************************************************************)
C17_OnlyViolationIsBadRequest ==
    \A p \in Evals :
        (pc[p] = "done" /\ IsReturnedError(result[p]) /\ IsBadRequest(result[p]))
        => IsImmutabilityViolation(result[p])

(***************************************************************************)
(* C17 (amended): every error the hook returns tells by its message the    *)
(* step that failed, and only the immutability violation carries field,    *)
(* reason and record id; but the setup error, the missing-record and       *)
(* missing-app errors and the fetch error are bad-request errors like the  *)
(* violation, while the commit and callback errors are plain wrapped       *)
(* errors.                                                                 *)
(***************************************************************************)
C17_MessageTellsStage ==
    \A p \in Evals :
        (pc[p] = "done" /\ IsReturnedError(result[p]))
        => /\ StageOfMessage(result[p].msg) = FailedStage(p)
           /\ HasFieldDetail(result[p]) <=> FailedStage(p) = "violation"
           /\ IsBadRequest(result[p])
                <=> FailedStage(p) \in {"setup", "precondition", "fetch", "violation"}
           /\ result[p].type = "wrapError" <=> FailedStage(p) \in {"commit", "callback"}

\* a failed fetch comes back as a bad-request error without field detail
C17_Witness ==
    /\ pc[1] = "done"
    /\ FailedStage(1) = "fetch"
    /\ IsBadRequest(result[1])
    /\ ~IsImmutabilityViolation(result[1])
    /\ ~HasFieldDetail(result[1])


\* the steps of one evaluation in the order of the hook's body
StepOrder == <<"FindRecordById", "compare", "Next", "userCallback">>

ConstructedPolicy ==
    <<ParseArgs(args).immutableFieldNames, ParseArgs(args).userCallback,
      ParseArgs(args).parseError>>

\* the list an evaluation checks under the policy: the listed names, or
\* the schema's non-system fields when none is listed
PolicyFields ==
    IF Len(immutableFieldNames) > 0
    THEN immutableFieldNames
    ELSE SelectSeq(SchemaFields, LAMBDA f : ~isSystemField(f))

\* positions in PolicyFields of the fields, other than "updated", that
\* differ between p's own snapshot and p's own proposed state
OwnChanges(p) ==
    {i \in 1..Len(PolicyFields) :
        /\ PolicyFields[i] # SystemFieldUpdated
        /\ Differs(p, PolicyFields[i])}

\* the result of evaluation p as a function of the policy, p's event, p's
\* snapshot and what p's own calls returned
ExpectedOutcome(p) ==
    IF parseError # NilErr THEN SetupErrorOf(parseError)
    ELSE IF ~e[p].hasRecord THEN RecordMissing
    ELSE IF ~e[p].hasApp THEN AppMissing
    ELSE IF ~e[p].hasCollection THEN Panic
    ELSE LET last == calls[p][Len(calls[p])]
         IN CASE last.fn = "FindRecordById" -> FetchErrorOf(last.ret)
              [] last.fn = "compare" -> ViolationOf(PolicyFields[Min(OwnChanges(p))], e[p].Id)
              [] last.fn = "Next" ->
                   IF last.ret = NilErr THEN NoError ELSE CommitErrorOf(last.ret)
              [] last.fn = "userCallback" ->
                   IF last.ret = NilErr
                   THEN NoError
                   ELSE [type |-> "wrapError", status |-> 0,
                         msg |-> "user callback failed AFTER record commit",
                         field |-> "", reason |-> "", recordId |-> "", cause |-> last.ret]

(***************************************************************************)
(* C20: with evaluations of one hook interleaved, the policy stays what    *)
(* MakeImmutable built from the arguments, every evaluation checks the     *)
(* list the policy gives, a comparison fails exactly when a field of that  *)
(* list differs between the evaluation's own snapshot and its own proposed *)
(* state, and the result is the one that the policy, the evaluation's own  *)
(* event and snapshot and the returns of its own calls determine.          *)
(***************************************************************************)
C20_PolicyFixedOutcomeOwn ==
    hook =>
        /\ policy = ConstructedPolicy
        /\ \A p \in Evals :
              /\ Called(p, "compare")
                    => /\ fieldsToCheck[p] = PolicyFields
                       /\ Succeeded(p, "compare") <=> OwnChanges(p) = {}
              /\ pc[p] = "done" => result[p] = ExpectedOutcome(p)

\* two evaluations of an all-fields hook are finished at once with
\* different proposed states and different results
C20_Witness ==
    /\ immutableFieldNames = <<>>
    /\ pc[1] = "done" /\ pc[2] = "done"
    /\ e[1].data # e[2].data
    /\ result[1] = NoError
    /\ IsImmutabilityViolation(result[2])
    /\ originalRecord[2] # stored


\* What a value is made of, with the order of a map's keys left out: its
\* kind and size, and under each index of a slice or key of a map what the
\* element there is made of.
RECURSIVE Paths(_)
Paths(v) ==
    CASE v.kind = "slice" ->
           {<< <<"slice", ToString(Len(v.items))>> >>}
             \cup UNION {{<< <<"index", ToString(i)>> >> \o q : q \in Paths(v.items[i])}
                           : i \in 1..Len(v.items)}
      [] v.kind = "map" ->
           {<< <<"map", ToString(Len(v.keys))>> >>}
             \cup UNION {{<< <<"key", v.keys[i]>> >> \o q : q \in Paths(v.items[i])}
                           : i \in 1..Len(v.keys)}
      [] OTHER -> {<< <<v.kind, v.s>> >>}

\* the same elements at the same indexes and the same values under the
\* same keys, at every depth
SameStructure(v, w) == Paths(v) = Paths(w)

(***************************************************************************)
(* C19: the comparison of a protected field is deep structural equality.   *)
(* The comparison passes exactly when the snapshot's and the proposed      *)
(* value have the same structure: slices with equal elements in equal      *)
(* order pass, slices with the elements in another order give the          *)
(* violation, maps with the same key-value pairs pass in whatever order    *)
(* the keys were inserted, and so for slices and maps inside one another.  *)
(***************************************************************************)
C19_DeepStructuralEquality ==
    \A p \in Evals :
        (Called(p, "compare") /\ immutableFieldNames = <<"name">>)
        => LET v == originalRecord[p]["name"]
               w == e[p].data["name"]
           IN /\ Succeeded(p, "compare") <=> SameStructure(v, w)
              /\ ~SameStructure(v, w) => result[p] = ViolationOf("name", e[p].Id)
              /\ (v.kind = "slice" /\ w.kind = "slice" /\ v.items # w.items
                    /\ \A i \in 1..Len(v.items) : v.items[i].kind = "string")
                 => ~Succeeded(p, "compare")

\* a slice of two maps is proposed with the keys of its maps inserted in
\* the other order, and the update is committed
C19_Witness ==
    /\ pc[1] = "done"
    /\ originalRecord[1]["name"] =
         Slice(<<Map(<<"a", "b">>, <<String("1"), String("2")>>),
                 Map(<<"a", "b">>, <<String("1"), String("2")>>)>>)
    /\ e[1].data["name"] =
         Slice(<<Map(<<"b", "a">>, <<String("2"), String("1")>>),
                 Map(<<"b", "a">>, <<String("2"), String("1")>>)>>)
    /\ Succeeded(1, "Next")
    /\ result[1] = NoError

====
